---- MODULE Spec2Model ----
(***************************************************************************)
(* Model of two generated client bindings of staratlaspy:                  *)
(*   faction/accounts/player_faction_data.py  (PlayerFactionData)          *)
(*   score/instructions/process_withdraw_fuel.py (process_withdraw_fuel)   *)
(*                                                                         *)
(* Bytes are sequences of integers 0..255.  Text is a sequence of          *)
(* one-character strings.  A Python int of a 64-bit field is kept as a     *)
(* sign and four 16-bit limbs, most significant first, because the values  *)
(* do not fit the 32-bit integers of TLC.                                  *)
(***************************************************************************)
EXTENDS Integers, Sequences, FiniteSets, TLC

VARIABLES store, call, outcome, trace

vars == <<store, call, outcome, trace>>

None == [kind |-> "None"]

Min(a, b) == IF a < b THEN a ELSE b

(* Python slices data[:n] and data[n:] *)
Take(s, n) == SubSeq(s, 1, Min(n, Len(s)))
Drop(s, n) == SubSeq(s, n + 1, Len(s))

Reverse(s) == [i \in 1..Len(s) |-> s[Len(s) + 1 - i]]

Ok(v) == [kind |-> "ok", value |-> v]
Err(e) == [kind |-> "error", error |-> e]

(* the second component of the pair of `table` whose first component is x *)
Lookup(table, x) == (CHOOSE p \in table : p[1] = x)[2]

(***************************************************************************)
(* Exceptions the two files raise or let through.                          *)
(***************************************************************************)
OwnerError == "ValueError: Account does not belong to this program"
AccountInvalidDiscriminator == "AccountInvalidDiscriminator: The discriminator for this account is invalid"
StreamError == "construct.StreamError: stream read less than specified amount"
FormatFieldError == "construct.FormatFieldError: struct.pack failed"
KeyError == "KeyError"
PublicKeyError == "ValueError: invalid public key input"
Base64Error == "binascii.Error: Incorrect padding"

(***************************************************************************)
(* Big numbers as big-endian digit sequences (used by base58 only).        *)
(***************************************************************************)
RECURSIVE StripLeading(_, _)
StripLeading(s, x) ==
    IF s /= <<>> /\ s[1] = x THEN StripLeading(Tail(s), x) ELSE s

(* long division of the base-b numeral `digits` by d, carrying `rem` in *)
RECURSIVE DivMod(_, _, _, _)
DivMod(digits, b, d, rem) ==
    IF digits = <<>> THEN [q |-> <<>>, r |-> rem]
    ELSE LET t == rem * b + digits[1]
             rest == DivMod(Tail(digits), b, d, t % d)
         IN [q |-> <<t \div d>> \o rest.q, r |-> rest.r]

(* little-endian base-b numeral times m plus carry *)
RECURSIVE MulAddLE(_, _, _, _)
MulAddLE(le, b, m, carry) ==
    IF le = <<>>
    THEN IF carry = 0 THEN <<>>
         ELSE <<carry % b>> \o MulAddLE(<<>>, b, m, carry \div b)
    ELSE LET t == le[1] * m + carry
         IN <<t % b>> \o MulAddLE(Tail(le), b, m, t \div b)

(***************************************************************************)
(* base58 (the text form of a PublicKey: str(key), PublicKey(text)).       *)
(***************************************************************************)
B58Alphabet ==
    << "1","2","3","4","5","6","7","8","9",
       "A","B","C","D","E","F","G","H","J","K","L","M","N","P","Q","R","S",
       "T","U","V","W","X","Y","Z",
       "a","b","c","d","e","f","g","h","i","j","k","m","n","o","p","q","r",
       "s","t","u","v","w","x","y","z" >>

B58Chars == {B58Alphabet[i] : i \in 1..Len(B58Alphabet)}

B58Index(c) == (CHOOSE i \in 1..Len(B58Alphabet) : B58Alphabet[i] = c) - 1

(* acc > 0: acc, idx = divmod(acc, 58); string = alphabet[idx] + string *)
RECURSIVE b58encode_int(_)
b58encode_int(acc) ==
    IF acc = <<>> THEN <<>>
    ELSE LET dm == DivMod(acc, 256, 58, 0)
         IN b58encode_int(StripLeading(dm.q, 0)) \o <<B58Alphabet[dm.r + 1]>>

(* b58encode that drops the leading zero bytes *)
b58encode_nopad(v) == b58encode_int(StripLeading(v, 0))

(* leading zero bytes become leading "1"s, the rest is the numeral *)
b58encode(v) ==
    LET stripped == StripLeading(v, 0)
        npad == Len(v) - Len(stripped)
    IN [i \in 1..npad |-> B58Alphabet[1]] \o b58encode_int(stripped)

(* for char in v: acc = acc * 58 + index(char); little-endian accumulator *)
RECURSIVE b58decode_int(_, _)
b58decode_int(text, accLE) ==
    IF text = <<>> THEN accLE
    ELSE b58decode_int(Tail(text), MulAddLE(accLE, 256, 58, B58Index(text[1])))

b58decode(text) ==
    IF \E i \in 1..Len(text) : text[i] \notin B58Chars
    THEN Err(PublicKeyError)
    ELSE LET stripped == StripLeading(text, B58Alphabet[1])
             npad == Len(text) - Len(stripped)
         IN Ok([i \in 1..npad |-> 0] \o Reverse(b58decode_int(stripped, <<>>)))

(***************************************************************************)
(* solana.publickey.PublicKey: 32 raw bytes; equality is on the bytes.     *)
(***************************************************************************)
PUBKEY_LENGTH == 32

PublicKey(bytes) == [key |-> bytes]

(* str(key) *)
PublicKeyToStr(pk) == b58encode(pk.key)

KeyOfBytes(d) ==
    IF d.kind = "error" THEN Err(PublicKeyError)
    ELSE IF Len(d.value) /= PUBKEY_LENGTH THEN Err(PublicKeyError)
    ELSE Ok(PublicKey(d.value))

(* PublicKey(text): base58 text that must decode to exactly 32 bytes *)
PublicKeyFromStr(text) == KeyOfBytes(b58decode(text))

(***************************************************************************)
(* base64: the account store returns the data as base64 text.              *)
(***************************************************************************)
B64Alphabet ==
    << "A","B","C","D","E","F","G","H","I","J","K","L","M","N","O","P","Q",
       "R","S","T","U","V","W","X","Y","Z",
       "a","b","c","d","e","f","g","h","i","j","k","l","m","n","o","p","q",
       "r","s","t","u","v","w","x","y","z",
       "0","1","2","3","4","5","6","7","8","9","+","/" >>

B64Chars == {B64Alphabet[i] : i \in 1..Len(B64Alphabet)}

B64Index(c) == (CHOOSE i \in 1..Len(B64Alphabet) : B64Alphabet[i] = c) - 1

(* what the node does to the stored bytes before it answers *)
RECURSIVE b64encode(_)
b64encode(bytes) ==
    IF bytes = <<>> THEN <<>>
    ELSE IF Len(bytes) = 1
    THEN << B64Alphabet[(bytes[1] \div 4) + 1],
            B64Alphabet[((bytes[1] % 4) * 16) + 1], "=", "=" >>
    ELSE IF Len(bytes) = 2
    THEN LET n == bytes[1] * 1024 + bytes[2] * 4
         IN << B64Alphabet[(n \div 4096) + 1],
               B64Alphabet[((n \div 64) % 64) + 1],
               B64Alphabet[(n % 64) + 1], "=" >>
    ELSE LET n == bytes[1] * 65536 + bytes[2] * 256 + bytes[3]
         IN << B64Alphabet[(n \div 262144) + 1],
               B64Alphabet[((n \div 4096) % 64) + 1],
               B64Alphabet[((n \div 64) % 64) + 1],
               B64Alphabet[(n % 64) + 1] >> \o b64encode(Drop(bytes, 3))

RECURSIVE B64Quads(_)
B64Quads(sx) ==
    IF Len(sx) >= 4
    THEN LET n == sx[1] * 262144 + sx[2] * 4096 + sx[3] * 64 + sx[4]
         IN <<n \div 65536, (n \div 256) % 256, n % 256>> \o B64Quads(Drop(sx, 4))
    ELSE IF Len(sx) = 3
    THEN LET n == sx[1] * 4096 + sx[2] * 64 + sx[3]
         IN <<n \div 1024, (n \div 4) % 256>>
    ELSE IF Len(sx) = 2
    THEN <<(sx[1] * 64 + sx[2]) \div 16>>
    ELSE <<>>

(* base64.b64decode(text), validate=False: characters outside the alphabet
   are dropped, the data characters before the padding are regrouped *)
b64decode(text) ==
    LET kept == SelectSeq(text, LAMBDA c : c \in B64Chars \/ c = "=")
        body == SelectSeq(kept, LAMBDA c : c /= "=")
        pads == Len(kept) - Len(body)
        sx == [i \in 1..Len(body) |-> B64Index(body[i])]
    IN IF Len(body) % 4 = 1 \/ (Len(body) % 4 /= 0 /\ (Len(body) + pads) % 4 /= 0)
       THEN Err(Base64Error)
       ELSE Ok(B64Quads(sx))

(***************************************************************************)
(* 64-bit integers: sign and four 16-bit limbs, most significant first.    *)
(***************************************************************************)
LimbBase == 256 * 256

PyInt(neg, mag) == [neg |-> neg, mag |-> mag]

(* 8 little-endian bytes as an unsigned numeral *)
LimbsOfLE(b) == [j \in 1..4 |-> b[9 - 2 * j] + 256 * b[10 - 2 * j]]

(* 2^64 - u for 0 < u < 2^64: complement every limb and add one *)
TwosComplement(u) ==
    Reverse(Take(MulAddLE(Reverse([j \in 1..4 |-> (LimbBase - 1) - u[j]]), LimbBase, 1, 1), 4))

(* borsh.U64: struct "<Q" *)
U64Parse(b) == PyInt(FALSE, LimbsOfLE(b))

(* I64 read as "<Q": no sign *)
I64Parse_unsigned(b) == PyInt(FALSE, LimbsOfLE(b))

(* borsh.I64: struct "<q" *)
I64Parse(b) ==
    LET u == LimbsOfLE(b)
    IN IF u[1] >= LimbBase \div 2 THEN PyInt(TRUE, TwosComplement(u)) ELSE PyInt(FALSE, u)

(* borsh.U8: struct "<B" *)
U8Parse(b) == b[1]

(* borsh.U8 build: struct.pack("<B", v) accepts 0..255 only *)
U8Build(v) == IF v \in 0..255 THEN Ok(<<v>>) ELSE Err(FormatFieldError)

(***************************************************************************)
(* borsh_construct.CStruct: fields are read one after the other from a     *)
(* stream; a read past the end of the stream raises StreamError.           *)
(***************************************************************************)
Field(name, type, count) == [name |-> name, type |-> type, count |-> count]

(* bytes one element of the type takes on the wire *)
SizeOf(type) ==
    CASE type = "BorshPubkey" -> PUBKEY_LENGTH
      [] type = "I64" -> 8
      [] type = "U8" -> 1
      [] type = "U64" -> 8

ParseElement(type, b) ==
    CASE type = "BorshPubkey" -> PublicKey(b)
      [] type = "I64" -> I64Parse(b)
      [] type = "U8" -> U8Parse(b)
      [] type = "U64" -> U64Parse(b)

(* stream_read(stream, n) at position pos (bytes already consumed) *)
StreamRead(data, pos, n) ==
    IF pos + n > Len(data) THEN Err(StreamError)
    ELSE Ok(SubSeq(data, pos + 1, pos + n))

(* an element in front of the elements parsed after it *)
PutElement(v, rest) ==
    IF rest.kind = "error" THEN rest
    ELSE [kind |-> "ok", value |-> <<v>> \o rest.value, pos |-> rest.pos]

(* `count` elements of `type` from position pos: [kind, value, pos] *)
RECURSIVE ParseArray(_, _, _, _)
ArrayStep(type, count, data, pos, r) ==
    IF r.kind = "error" THEN r
    ELSE PutElement(ParseElement(type, r.value),
                    ParseArray(type, count - 1, data, pos + SizeOf(type)))

ParseArray(type, count, data, pos) ==
    IF count = 0 THEN [kind |-> "ok", value |-> <<>>, pos |-> pos]
    ELSE ArrayStep(type, count, data, pos, StreamRead(data, pos, SizeOf(type)))

FieldValue(f, r) ==
    IF r.kind = "error" THEN r
    ELSE [kind |-> "ok",
          value |-> IF f.count = 0 THEN r.value[1] ELSE r.value,
          pos |-> r.pos]

(* count = 0 declares a scalar field, count > 0 a fixed-length array *)
ParseField(f, data, pos) ==
    FieldValue(f, ParseArray(f.type, IF f.count = 0 THEN 1 ELSE f.count, data, pos))

PutField(name, value, rest) ==
    IF rest.kind = "error" THEN rest ELSE Ok((name :> value) @@ rest.value)

(* the container of a struct: the fields in declared order, each read
   where the one before it ended *)
RECURSIVE ParseStruct(_, _, _)
StructStep(fields, data, r) ==
    IF r.kind = "error" THEN Err(r.error)
    ELSE PutField(fields[1].name, r.value, ParseStruct(Tail(fields), data, r.pos))

ParseStruct(fields, data, pos) ==
    IF fields = <<>> THEN Ok(<<>>)
    ELSE StructStep(fields, data, ParseField(fields[1], data, pos))

(* layout.parse(data): bytes after the last field are left unread *)
LayoutParse(fields, data) == ParseStruct(fields, data, 0)

PutBytes(b, rest) ==
    IF rest.kind = "error" THEN rest ELSE Ok(b \o rest.value)

RECURSIVE BuildStruct(_, _)
BuildStep(fields, obj, b) ==
    IF b.kind = "error" THEN b ELSE PutBytes(b.value, BuildStruct(Tail(fields), obj))

BuildStruct(fields, obj) ==
    IF fields = <<>> THEN Ok(<<>>)
    ELSE BuildStep(fields, obj, U8Build(obj[fields[1].name]))

(* layout.build(obj) of a struct of U8 fields *)
LayoutBuild(fields, obj) == BuildStruct(fields, obj)

(***************************************************************************)
(* faction/accounts/player_faction_data.py                                 *)
(***************************************************************************)
ACCOUNT_DISCRIMINATOR_SIZE == 8

(* b"/,\xff\x0fgM\x8b\xf7" *)
discriminator == <<47, 44, 255, 15, 103, 77, 139, 247>>

(* the layout with the padding one word short *)
layout_short ==
    << Field("owner", "BorshPubkey", 0),
       Field("enlisted_at_timestamp", "I64", 0),
       Field("faction_id", "U8", 0),
       Field("bump", "U8", 0),
       Field("padding", "U64", 4) >>

layout ==
    << Field("owner", "BorshPubkey", 0),
       Field("enlisted_at_timestamp", "I64", 0),
       Field("faction_id", "U8", 0),
       Field("bump", "U8", 0),
       Field("padding", "U64", 5) >>

(* the dataclass: one value per declared field *)
PlayerFactionData(owner, enlisted_at_timestamp, faction_id, bump, padding) ==
    [owner |-> owner, enlisted_at_timestamp |-> enlisted_at_timestamp,
     faction_id |-> faction_id, bump |-> bump, padding |-> padding]

(* the program the accounts must belong to; its value is a fixed key *)
PROGRAM_ID == PublicKey([i \in 1..PUBKEY_LENGTH |-> (37 * i + 11) % 256])

(* cls(owner=dec.owner, ...) of decode *)
FromParsed(dec) ==
    IF dec.kind = "error" THEN dec
    ELSE Ok(PlayerFactionData(dec.value.owner, dec.value.enlisted_at_timestamp,
                              dec.value.faction_id, dec.value.bump, dec.value.padding))

(* decode that parses the fields before it looks at the tag *)
ParsedThenTag(data, r) ==
    IF r.kind = "error" THEN [res |-> r, parsed |-> TRUE]
    ELSE IF Take(data, ACCOUNT_DISCRIMINATOR_SIZE) /= discriminator
    THEN [res |-> Err(AccountInvalidDiscriminator), parsed |-> TRUE]
    ELSE [res |-> r, parsed |-> TRUE]

decode_parse_first(data) ==
    ParsedThenTag(data, FromParsed(LayoutParse(layout, Drop(data, ACCOUNT_DISCRIMINATOR_SIZE))))

(* decode: res is the value returned or the exception raised, parsed tells
   whether layout.parse was called *)
decode(data) ==
    IF Take(data, ACCOUNT_DISCRIMINATOR_SIZE) /= discriminator
    THEN [res |-> Err(AccountInvalidDiscriminator), parsed |-> FALSE]
    ELSE [res |-> FromParsed(LayoutParse(layout, Drop(data, ACCOUNT_DISCRIMINATOR_SIZE))),
          parsed |-> TRUE]

(***************************************************************************)
(* The accounts the store can hold.                                        *)
(***************************************************************************)
ForeignKey == PublicKey([i \in 1..PUBKEY_LENGTH |-> IF i <= 2 THEN 0 ELSE (91 * i + 2) % 256])
ZeroKey == PublicKey([i \in 1..PUBKEY_LENGTH |-> 0])
FullKey == PublicKey([i \in 1..PUBKEY_LENGTH |-> 255])

OwnerKeys == {PROGRAM_ID, ForeignKey, ZeroKey, FullKey}

(* field bytes of an account, 6 bytes longer than the layout *)
Body(p) ==
    [i \in 1..88 |->
        CASE p = 1 -> (7 * i + 1) % 256
          [] p = 2 -> 255
          [] p = 3 -> IF i = 40 THEN 128 ELSE 0
          [] p = 4 -> (251 * i + 130) % 256
          [] p = 5 -> IF i <= 82 THEN (7 * i + 1) % 256 ELSE 0
          [] p = 6 -> IF i <= 32 THEN ForeignKey.key[i]
                      ELSE IF i = 33 THEN 232 ELSE IF i = 34 THEN 3
                      ELSE IF i = 41 THEN 3 ELSE IF i = 42 THEN 7 ELSE 0]

Patterns == 1..6

Prefix(k) ==
    CASE k = 1 -> discriminator
      [] k = 2 -> [discriminator EXCEPT ![1] = 48]
      [] k = 3 -> [discriminator EXCEPT ![8] = 246]

Prefixes == 1..3

BlobLengths == {0, 5, 8, 50, 89, 90, 96}

Blob(k, p, n) == Take(Prefix(k) \o Body(p), n)

Blobs == {Blob(k, p, n) : k \in Prefixes, p \in Patterns, n \in BlobLengths}

(* what the node answers for an account with this owner and these bytes *)
RpcInfo(owner, data) ==
    [owner |-> PublicKeyToStr(owner), data |-> <<b64encode(data), "base64">>]

Infos ==
    { RpcInfo(PROGRAM_ID, Blob(1, 6, 90)), RpcInfo(PROGRAM_ID, Blob(1, 4, 96)),
      RpcInfo(PROGRAM_ID, Blob(2, 1, 90)), RpcInfo(PROGRAM_ID, Blob(1, 1, 50)),
      RpcInfo(ForeignKey, Blob(1, 6, 90)), RpcInfo(ForeignKey, Blob(3, 2, 90)) }

StoreData == {b64decode(info.data[1]).value : info \in Infos}

(* decode over the byte strings of the model, computed once *)
decode_table == {<<b, decode(b)>> : b \in Blobs \cup StoreData}

cls_decode(data) == Lookup(decode_table, data)

(* str(PROGRAM_ID) *)
PROGRAM_ID_str == PublicKeyToStr(PROGRAM_ID)

b64decode_table == {<<info.data[1], b64decode(info.data[1])>> : info \in Infos}

(* anchorpy's conversion of one answer of the node: the owner text becomes
   a PublicKey, the base64 text becomes bytes *)
AccountInfo(info) ==
    [account |-> [owner |-> PublicKeyFromStr(info.owner).value,
                  data |-> b64decode(info.data[1]).value]]

AccountInfo_table == {<<info, AccountInfo(info)>> : info \in Infos}

(* the calls decode makes, for the entry at position `at` of the request *)
DecodeEvents(at, d) ==
    <<[fn |-> "decode", at |-> at]>>
      \o (IF d.parsed THEN <<[fn |-> "layout.parse", at |-> at]>> ELSE <<>>)

Decoded(at, d) == [res |-> d.res, trace |-> DecodeEvents(at, d)]

FetchDecode(bytes_data) ==
    IF bytes_data.kind = "error" THEN [res |-> bytes_data, trace |-> <<>>]
    ELSE Decoded(1, cls_decode(bytes_data.value))

(* fetch without the ownership check *)
fetch_no_owner_check(conn, address) ==
    IF conn[address] = None THEN [res |-> Ok(None), trace |-> <<>>]
    ELSE FetchDecode(Lookup(b64decode_table, conn[address].data[1]))

(* fetch: resp["result"]["value"] is None or {"owner": text, "data": [b64, "base64"]} *)
fetch(conn, address) ==
    IF conn[address] = None THEN [res |-> Ok(None), trace |-> <<>>]
    ELSE IF conn[address].owner /= PROGRAM_ID_str
    THEN [res |-> Err(OwnerError), trace |-> <<>>]
    ELSE FetchDecode(Lookup(b64decode_table, conn[address].data[1]))

(* anchorpy get_multiple_accounts: one item per address in request order,
   None for an address the store does not hold, else the account with its
   owner as a PublicKey and its data as bytes *)
get_multiple_accounts(conn, addresses) ==
    [i \in 1..Len(addresses) |->
        IF conn[addresses[i]] = None THEN None
        ELSE Lookup(AccountInfo_table, conn[addresses[i]])]

(* the loop of fetch_multiple from entry i on, res holding the slots so far *)
RECURSIVE fetch_multiple_loop(_, _, _, _)
LoopDecoded(infos, i, res, tr, d) ==
    IF d.res.kind = "error" THEN [res |-> d.res, trace |-> tr \o d.trace]
    ELSE fetch_multiple_loop(infos, i + 1, Append(res, d.res.value), tr \o d.trace)

(* the loop leaving no slot for an address the store does not hold *)
fetch_multiple_loop_skip(infos, i, res, tr) ==
    IF i > Len(infos) THEN [res |-> Ok(res), trace |-> tr]
    ELSE IF infos[i] = None
    THEN fetch_multiple_loop(infos, i + 1, res, tr)
    ELSE IF infos[i].account.owner /= PROGRAM_ID
    THEN [res |-> Err(OwnerError), trace |-> tr]
    ELSE LoopDecoded(infos, i, res, tr, Decoded(i, cls_decode(infos[i].account.data)))

(* the loop decoding an entry before it checks the owner *)
OwnerAfterDecode(infos, i, res, tr, d) ==
    IF d.res.kind = "error" THEN [res |-> d.res, trace |-> tr \o d.trace]
    ELSE IF infos[i].account.owner /= PROGRAM_ID
    THEN [res |-> Err(OwnerError), trace |-> tr \o d.trace]
    ELSE fetch_multiple_loop(infos, i + 1, Append(res, d.res.value), tr \o d.trace)

fetch_multiple_loop_decode_first(infos, i, res, tr) ==
    IF i > Len(infos) THEN [res |-> Ok(res), trace |-> tr]
    ELSE IF infos[i] = None
    THEN fetch_multiple_loop(infos, i + 1, Append(res, None), tr)
    ELSE OwnerAfterDecode(infos, i, res, tr, Decoded(i, cls_decode(infos[i].account.data)))

fetch_multiple_loop(infos, i, res, tr) ==
    IF i > Len(infos) THEN [res |-> Ok(res), trace |-> tr]
    ELSE IF infos[i] = None
    THEN fetch_multiple_loop(infos, i + 1, Append(res, None), tr)
    ELSE IF infos[i].account.owner /= PROGRAM_ID
    THEN [res |-> Err(OwnerError), trace |-> tr]
    ELSE LoopDecoded(infos, i, res, tr, Decoded(i, cls_decode(infos[i].account.data)))

fetch_multiple(conn, addresses) ==
    fetch_multiple_loop(get_multiple_accounts(conn, addresses), 1, <<>>, <<>>)

to_json(self) ==
    [owner |-> PublicKeyToStr(self.owner),
     enlisted_at_timestamp |-> self.enlisted_at_timestamp,
     faction_id |-> self.faction_id,
     bump |-> self.bump,
     padding |-> self.padding]

FromJsonOwner(obj, owner) ==
    IF owner.kind = "error" THEN owner
    ELSE Ok(PlayerFactionData(owner.value, obj.enlisted_at_timestamp,
                              obj.faction_id, obj.bump, obj.padding))

from_json(obj) == FromJsonOwner(obj, PublicKeyFromStr(obj.owner))

(***************************************************************************)
(* score/instructions/process_withdraw_fuel.py                             *)
(***************************************************************************)
(* the program of the score instructions *)
SCORE_PROGRAM_ID == PublicKey([i \in 1..PUBKEY_LENGTH |-> (59 * i + 5) % 256])

(* the argument layout with the first two bumps in the other order *)
ix_layout_swapped ==
    << Field("scorevars_bump", "U8", 0),
       Field("staking_bump", "U8", 0),
       Field("scorevars_ship_bump", "U8", 0),
       Field("escrow_auth_bump", "U8", 0),
       Field("escrow_bump", "U8", 0) >>

ix_layout ==
    << Field("staking_bump", "U8", 0),
       Field("scorevars_bump", "U8", 0),
       Field("scorevars_ship_bump", "U8", 0),
       Field("escrow_auth_bump", "U8", 0),
       Field("escrow_bump", "U8", 0) >>

ArgNames == {ix_layout[i].name : i \in 1..Len(ix_layout)}

AccountMeta(pubkey, is_signer, is_writable) ==
    [pubkey |-> pubkey, is_signer |-> is_signer, is_writable |-> is_writable]

(* the list with fuel_mint read-only and the last two roles exchanged *)
KeyRoles_swapped ==
    << [role |-> "player_account", is_signer |-> TRUE, is_writable |-> FALSE],
       [role |-> "ship_staking_account", is_signer |-> FALSE, is_writable |-> TRUE],
       [role |-> "score_vars_account", is_signer |-> FALSE, is_writable |-> FALSE],
       [role |-> "score_vars_ship_account", is_signer |-> FALSE, is_writable |-> FALSE],
       [role |-> "fuel_token_account_escrow", is_signer |-> FALSE, is_writable |-> TRUE],
       [role |-> "fuel_token_account_return", is_signer |-> FALSE, is_writable |-> TRUE],
       [role |-> "fuel_mint", is_signer |-> FALSE, is_writable |-> FALSE],
       [role |-> "escrow_authority", is_signer |-> FALSE, is_writable |-> FALSE],
       [role |-> "token_program", is_signer |-> FALSE, is_writable |-> FALSE],
       [role |-> "ship_mint", is_signer |-> FALSE, is_writable |-> FALSE],
       [role |-> "clock", is_signer |-> FALSE, is_writable |-> FALSE] >>

(* the AccountMeta list of process_withdraw_fuel, role by role *)
KeyRoles ==
    << [role |-> "player_account", is_signer |-> TRUE, is_writable |-> FALSE],
       [role |-> "ship_staking_account", is_signer |-> FALSE, is_writable |-> TRUE],
       [role |-> "score_vars_account", is_signer |-> FALSE, is_writable |-> FALSE],
       [role |-> "score_vars_ship_account", is_signer |-> FALSE, is_writable |-> FALSE],
       [role |-> "fuel_token_account_escrow", is_signer |-> FALSE, is_writable |-> TRUE],
       [role |-> "fuel_token_account_return", is_signer |-> FALSE, is_writable |-> TRUE],
       [role |-> "fuel_mint", is_signer |-> FALSE, is_writable |-> TRUE],
       [role |-> "escrow_authority", is_signer |-> FALSE, is_writable |-> FALSE],
       [role |-> "token_program", is_signer |-> FALSE, is_writable |-> FALSE],
       [role |-> "clock", is_signer |-> FALSE, is_writable |-> FALSE],
       [role |-> "ship_mint", is_signer |-> FALSE, is_writable |-> FALSE] >>

(* ProcessWithdrawFuelAccounts: the keys the TypedDict declares *)
Roles == {KeyRoles[i].role : i \in 1..Len(KeyRoles)}

PutMeta(meta, rest) ==
    IF rest.kind = "error" THEN rest ELSE Ok(<<meta>> \o rest.value)

(* the list literal: accounts[role] raises KeyError for a role not in the dict *)
RECURSIVE BuildKeys(_, _)
(* the list built with accounts.get(role): a role not in the dict is left out *)
BuildKeys_skip(roles, accounts) ==
    IF roles = <<>> THEN Ok(<<>>)
    ELSE IF roles[1].role \notin DOMAIN accounts THEN BuildKeys(Tail(roles), accounts)
    ELSE PutMeta(AccountMeta(accounts[roles[1].role], roles[1].is_signer,
                             roles[1].is_writable),
                 BuildKeys(Tail(roles), accounts))

BuildKeys(roles, accounts) ==
    IF roles = <<>> THEN Ok(<<>>)
    ELSE IF roles[1].role \notin DOMAIN accounts THEN Err(KeyError)
    ELSE PutMeta(AccountMeta(accounts[roles[1].role], roles[1].is_signer,
                             roles[1].is_writable),
                 BuildKeys(Tail(roles), accounts))

(* b"-\x93\x93\xa3 \xdd\xa1\xb0" *)
identifier == <<45, 147, 147, 163, 32, 221, 161, 176>>

TransactionInstruction(keys, program_id, data) ==
    [keys |-> keys, program_id |-> program_id, data |-> data]

Instruction(keys, encoded_args) ==
    IF encoded_args.kind = "error" THEN encoded_args
    ELSE Ok(TransactionInstruction(keys, SCORE_PROGRAM_ID, identifier \o encoded_args.value))

EncodeArgs(args, keys) ==
    IF keys.kind = "error" THEN keys
    ELSE IF \E n \in ArgNames : n \notin DOMAIN args THEN Err(KeyError)
    ELSE Instruction(keys.value, LayoutBuild(ix_layout, args))

process_withdraw_fuel(args, accounts) == EncodeArgs(args, BuildKeys(KeyRoles, accounts))

(***************************************************************************)
(* Inputs.                                                                 *)
(***************************************************************************)
MaxBatch == 3

Addresses == {"a1", "a2", "a3"}

AddressLists == UNION {[1..n -> Addresses] : n \in 0..MaxBatch}

EmptyStore == [a \in Addresses |-> None]

Wide(neg, a, b, c, d) == PyInt(neg, <<a, b, c, d>>)

Timestamps ==
    { Wide(FALSE, 0, 0, 0, 0), Wide(FALSE, 0, 0, 0, 1000), Wide(TRUE, 0, 0, 0, 1),
      Wide(TRUE, 32768, 0, 0, 0), Wide(FALSE, 32767, 65535, 65535, 65535) }

Paddings ==
    { [k \in 1..5 |-> Wide(FALSE, 0, 0, 0, 0)],
      [k \in 1..5 |-> Wide(FALSE, 65535, 65535, 65535, 65535)],
      [k \in 1..5 |-> Wide(FALSE, k, 0, 258, 0)] }

Values ==
    { PlayerFactionData(o, t, fb[1], fb[2], pad) :
        o \in OwnerKeys, t \in Timestamps, fb \in {<<3, 7>>, <<0, 255>>}, pad \in Paddings }

(* to_json over the values of the model, computed once *)
to_json_table == {<<v, to_json(v)>> : v \in Values}

(* portable forms: of every value, and with an owner text that is no key *)
JsonInputs ==
    {to_json(v) : v \in Values}
      \cup { [to_json(v) EXCEPT !.owner = t] :
               v \in {PlayerFactionData(PROGRAM_ID, Wide(FALSE, 0, 0, 0, 0), 3, 7,
                                        [k \in 1..5 |-> Wide(FALSE, 0, 0, 0, 0)])},
               t \in {<<"1", "1">>, <<"0", "O">>, <<>>} }

BumpValues == {0, 7, 255, 256}

ArgInputs == [ArgNames -> BumpValues]

AccountKey(n) == PublicKey([i \in 1..PUBKEY_LENGTH |-> (n * i) % 256])

RoleIndex(r) == CHOOSE i \in 1..Len(KeyRoles) : KeyRoles[i].role = r

AccountInputs ==
    LET full == { [r \in Roles |-> AccountKey(RoleIndex(r))],
                  [r \in Roles |-> AccountKey(12 - RoleIndex(r))],
                  [r \in Roles |-> AccountKey(1)] }
    IN full \cup { [r \in Roles \ {m} |-> f[r]] : f \in full, m \in Roles }

(***************************************************************************)
(* The state: the account store, the last call and what it gave.           *)
(***************************************************************************)
NoCall == [op |-> "none"]

InitFetch ==
    /\ store \in [Addresses -> Infos \cup {None}]
    /\ call = NoCall
    /\ outcome = None
    /\ trace = <<>>

Init ==
    /\ store = EmptyStore
    /\ call = NoCall
    /\ outcome = None
    /\ trace = <<>>

Record(r) ==
    /\ outcome' = r.res
    /\ trace' = r.trace
    /\ UNCHANGED store

Fetch(address) ==
    /\ call = NoCall
    /\ call' = [op |-> "fetch", address |-> address]
    /\ Record(fetch(store, address))

FetchMultiple(addresses) ==
    /\ call = NoCall
    /\ call' = [op |-> "fetch_multiple", addresses |-> addresses]
    /\ Record(fetch_multiple(store, addresses))

Decode(data) ==
    /\ call = NoCall
    /\ call' = [op |-> "decode", data |-> data]
    /\ Record(Decoded(1, cls_decode(data)))

ToJson(v) ==
    /\ call = NoCall
    /\ call' = [op |-> "to_json", self |-> v]
    /\ outcome' = Ok(to_json(v))
    /\ trace' = <<>>
    /\ UNCHANGED store

FromJson(obj) ==
    /\ call = NoCall
    /\ call' = [op |-> "from_json", obj |-> obj]
    /\ outcome' = from_json(obj)
    /\ trace' = <<>>
    /\ UNCHANGED store

ProcessWithdrawFuel(args, accounts) ==
    /\ call = NoCall
    /\ call' = [op |-> "process_withdraw_fuel", args |-> args, accounts |-> accounts]
    /\ outcome' = process_withdraw_fuel(args, accounts)
    /\ trace' = <<>>
    /\ UNCHANGED store

(* the caller takes the result; the next call starts afresh *)
Return ==
    /\ call /= NoCall
    /\ call' = NoCall
    /\ outcome' = None
    /\ trace' = <<>>
    /\ UNCHANGED store

NextFetch ==
    \/ call = NoCall /\ \E a \in Addresses : Fetch(a)
    \/ call = NoCall /\ \E l \in AddressLists : FetchMultiple(l)
    \/ Return

NextCodec ==
    \/ call = NoCall /\ \E b \in Blobs : Decode(b)
    \/ call = NoCall /\ \E v \in Values : ToJson(v)
    \/ call = NoCall /\ \E o \in JsonInputs : FromJson(o)
    \/ Return

NextIx ==
    \/ call = NoCall /\ \E args \in ArgInputs, accounts \in AccountInputs :
                            ProcessWithdrawFuel(args, accounts)
    \/ Return

SpecFetch == InitFetch /\ [][NextFetch]_vars
SpecCodec == Init /\ [][NextCodec]_vars
SpecIx == Init /\ [][NextIx]_vars

(***************************************************************************)
(* The names the specification gives the failures.                         *)
(***************************************************************************)
OwnershipMismatch == OwnerError
InvalidDiscriminator == AccountInvalidDiscriminator
TruncatedInput == StreamError
MissingAccountRole == KeyError

(* the account the store holds at an address, as owner key and data bytes *)
Stored(a) == Lookup(AccountInfo_table, store[a]).account

HasTag(d) == Len(d) >= 8 /\ \A i \in 1..8 : d[i] = discriminator[i]

ParseCalled == \E k \in 1..Len(trace) : trace[k].fn = "layout.parse"

(* layout.size(): the bytes the declared fields take *)
RECURSIVE LayoutSize(_)
LayoutSize(fields) ==
    IF fields = <<>> THEN 0
    ELSE SizeOf(fields[1].type) * (IF fields[1].count = 0 THEN 1 ELSE fields[1].count)
           + LayoutSize(Tail(fields))

(* C1: fetch on an address whose account exists and is owned by another
   program fails with OwnershipMismatch, whatever its data bytes are, and
   nothing is decoded. *)
C1_FetchForeignOwnerFails ==
    (call.op = "fetch" /\ store[call.address] /= None
       /\ Stored(call.address).owner /= PROGRAM_ID)
      => (outcome = Err(OwnershipMismatch) /\ trace = <<>>)

C1_Witness ==
    /\ call.op = "fetch"
    /\ store[call.address] = RpcInfo(ForeignKey, Blob(1, 6, 90))
    /\ decode(Blob(1, 6, 90)).res.kind = "ok"
    /\ outcome = Err(OwnershipMismatch)

(* C2: decode of a byte string whose first 8 bytes are not the discriminator
   (a shorter string included) fails with InvalidDiscriminator whatever
   follows, and layout.parse is called only when the tag matched. *)
C2_WrongTagRejected ==
    call.op = "decode" =>
      /\ ~HasTag(call.data) => (outcome = Err(InvalidDiscriminator) /\ ~ParseCalled)
      /\ ParseCalled => HasTag(call.data)

C2_Witness ==
    /\ call.op = "decode"
    /\ call.data = Blob(2, 6, 90)
    /\ decode(Blob(1, 6, 90)).res.kind = "ok"
    /\ outcome = Err(InvalidDiscriminator)

(* C3: when every account of the request that exists is owned by the program
   and decodes, fetch_multiple returns one slot per address in request order:
   None exactly for the addresses the store does not hold, else the decoded
   record of that address. *)
C3_Precondition ==
    \A i \in 1..Len(call.addresses) :
        store[call.addresses[i]] /= None =>
            /\ Stored(call.addresses[i]).owner = PROGRAM_ID
            /\ decode(Stored(call.addresses[i]).data).res.kind = "ok"

C3_BatchOrderPreserved ==
    (call.op = "fetch_multiple" /\ C3_Precondition) =>
      /\ outcome.kind = "ok"
      /\ Len(outcome.value) = Len(call.addresses)
      /\ \A i \in 1..Len(call.addresses) :
            /\ (outcome.value[i] = None) <=> (store[call.addresses[i]] = None)
            /\ store[call.addresses[i]] /= None =>
                 outcome.value[i] = decode(Stored(call.addresses[i]).data).res.value

C3_Witness ==
    /\ call.op = "fetch_multiple"
    /\ call.addresses = <<"a1", "a2", "a3">>
    /\ store["a1"] = RpcInfo(PROGRAM_ID, Blob(1, 6, 90))
    /\ store["a2"] = None
    /\ store["a3"] = RpcInfo(PROGRAM_ID, Blob(1, 4, 96))
    /\ outcome.kind = "ok"
    /\ outcome.value[2] = None
    /\ outcome.value[1] /= None /\ outcome.value[3] /= None
    /\ outcome.value[1] /= outcome.value[3]

(* C4 as stated: decode of any byte string shorter than 8 + layout.size()
   fails with TruncatedInput. *)
C4_Original ==
    (call.op = "decode" /\ Len(call.data) < 8 + LayoutSize(layout))
      => outcome = Err(TruncatedInput)

(* C4 as amended: decode of a byte string shorter than 8 + layout.size() = 90
   bytes never returns a record; it fails with TruncatedInput when the string
   starts with the discriminator and with InvalidDiscriminator otherwise,
   which is the case of every string shorter than 8 bytes. *)
C4_ShortInputRejected ==
    /\ LayoutSize(layout) = 82
    /\ (call.op = "decode" /\ Len(call.data) < 8 + LayoutSize(layout)) =>
          outcome = Err(IF HasTag(call.data) THEN TruncatedInput ELSE InvalidDiscriminator)

C4_Witness ==
    /\ call.op = "decode"
    /\ Len(call.data) = 89
    /\ HasTag(call.data)
    /\ outcome = Err(TruncatedInput)

IsAddressText(t) == Len(t) \in 32..44 /\ \A i \in 1..Len(t) : t[i] \in B58Chars

(* C5: for every valid value v, from_json(to_json(v)) = v field by field, and
   to_json(v) has exactly the five keys, the owner as base58 text and the
   integers unchanged. *)
C5_JsonRoundTrip ==
    /\ call.op = "to_json" =>
         /\ from_json(outcome.value) = Ok(call.self)
         /\ DOMAIN outcome.value =
              {"owner", "enlisted_at_timestamp", "faction_id", "bump", "padding"}
         /\ IsAddressText(outcome.value.owner)
         /\ outcome.value.enlisted_at_timestamp = call.self.enlisted_at_timestamp
         /\ outcome.value.faction_id = call.self.faction_id
         /\ outcome.value.bump = call.self.bump
         /\ outcome.value.padding = call.self.padding
    /\ call.op = "from_json" =>
         \A p \in to_json_table : p[2] = call.obj => outcome = Ok(p[1])

C5_Witness ==
    /\ call.op = "from_json"
    /\ \E v \in Values :
          /\ v.owner = ForeignKey
          /\ v.enlisted_at_timestamp.neg
          /\ call.obj = Lookup(to_json_table, v)
          /\ outcome = Ok(v)

(* C6: every successful process_withdraw_fuel returns the same 11 account
   references in the same order with the same flags, player_account the only
   signer, entry i carrying the key supplied for role i. *)
C6_Roles ==
    << "player_account", "ship_staking_account", "score_vars_account",
       "score_vars_ship_account", "fuel_token_account_escrow",
       "fuel_token_account_return", "fuel_mint", "escrow_authority",
       "token_program", "clock", "ship_mint" >>

C6_AccountListFixed ==
    (call.op = "process_withdraw_fuel" /\ outcome.kind = "ok") =>
      /\ Len(outcome.value.keys) = 11
      /\ \A i \in 1..11 :
            /\ outcome.value.keys[i].pubkey = call.accounts[C6_Roles[i]]
            /\ outcome.value.keys[i].is_signer = (i = 1)
            /\ outcome.value.keys[i].is_writable = (i \in {2, 5, 6, 7})

C6_Witness ==
    /\ call.op = "process_withdraw_fuel"
    /\ outcome.kind = "ok"
    /\ \A i, j \in 1..11 : i /= j => call.accounts[C6_Roles[i]] /= call.accounts[C6_Roles[j]]
    /\ call.args["staking_bump"] = 255

InRange(args) == \A n \in DOMAIN args : args[n] \in 0..255

(* C7: with the five bumps in 0..255 and every role supplied, the payload is
   for the score program and its data is the 8-byte tag followed by
   staking_bump, scorevars_bump, scorevars_ship_bump, escrow_auth_bump,
   escrow_bump, one byte each: 13 bytes, none of them from an account. *)
C7_PayloadBytes ==
    call.op = "process_withdraw_fuel" =>
      /\ (InRange(call.args) /\ DOMAIN call.accounts = Roles) => outcome.kind = "ok"
      /\ outcome.kind = "ok" =>
           /\ outcome.value.program_id = SCORE_PROGRAM_ID
           /\ Len(outcome.value.data) = 13
           /\ outcome.value.data =
                << 45, 147, 147, 163, 32, 221, 161, 176,
                   call.args["staking_bump"], call.args["scorevars_bump"],
                   call.args["scorevars_ship_bump"], call.args["escrow_auth_bump"],
                   call.args["escrow_bump"] >>

C7_Witness ==
    /\ call.op = "process_withdraw_fuel"
    /\ outcome.kind = "ok"
    /\ call.args["staking_bump"] = 7
    /\ call.args["scorevars_bump"] = 255
    /\ call.args["escrow_bump"] = 0
    /\ outcome.value.data[9] = 7 /\ outcome.value.data[10] = 255

(* C8: with a required role missing from the accounts, process_withdraw_fuel
   fails with MissingAccountRole and returns nothing, whichever role it is
   and whatever the arguments are. *)
C8_MissingRoleFails ==
    (call.op = "process_withdraw_fuel" /\ \E r \in Roles : r \notin DOMAIN call.accounts)
      => outcome = Err(MissingAccountRole)

C8_Witness ==
    /\ call.op = "process_withdraw_fuel"
    /\ DOMAIN call.accounts = Roles \ {"ship_mint"}
    /\ call.args["staking_bump"] = 256
    /\ outcome = Err(MissingAccountRole)

(* the 16-bit limb whose low byte is at byte offset o of d *)
Limb(d, o) == d[o + 1] + 256 * d[o + 2]

(* the unsigned little-endian 64-bit numeral at byte offset o of d *)
U64At(d, o) == <<Limb(d, o + 6), Limb(d, o + 4), Limb(d, o + 2), Limb(d, o)>>

(* a + b = 2^64 *)
AddsTo2Pow64(a, b) ==
    LET s4 == a[4] + b[4]
        s3 == a[3] + b[3] + s4 \div 65536
        s2 == a[2] + b[2] + s3 \div 65536
        s1 == a[1] + b[1] + s2 \div 65536
    IN s4 % 65536 = 0 /\ s3 % 65536 = 0 /\ s2 % 65536 = 0 /\ s1 = 65536

(* C9: for a byte string of at least 90 bytes that starts with the
   discriminator, decode returns owner = bytes 8..39, enlisted_at_timestamp =
   bytes 40..47 little-endian two's complement, faction_id = byte 48, bump =
   byte 49, padding[k] = bytes 50+8k..57+8k little-endian unsigned; bytes
   past offset 89 do not count. *)
C9_FixedOffsets ==
    (call.op = "decode" /\ Len(call.data) >= 90 /\ HasTag(call.data)) =>
      /\ outcome.kind = "ok"
      /\ outcome.value.owner = PublicKey(SubSeq(call.data, 9, 40))
      /\ IF call.data[48] < 128
         THEN outcome.value.enlisted_at_timestamp = PyInt(FALSE, U64At(call.data, 40))
         ELSE /\ outcome.value.enlisted_at_timestamp.neg
              /\ AddsTo2Pow64(outcome.value.enlisted_at_timestamp.mag, U64At(call.data, 40))
      /\ outcome.value.faction_id = call.data[49]
      /\ outcome.value.bump = call.data[50]
      /\ Len(outcome.value.padding) = 5
      /\ \A k \in 0..4 :
            outcome.value.padding[k + 1] = PyInt(FALSE, U64At(call.data, 50 + 8 * k))
      /\ outcome = decode(SubSeq(call.data, 1, 90)).res

C9_Witness ==
    /\ call.op = "decode"
    /\ Len(call.data) = 96
    /\ call.data[48] >= 128
    /\ call.data[96] /= 0
    /\ outcome.kind = "ok"
    /\ outcome.value.enlisted_at_timestamp.neg
    /\ outcome.value.enlisted_at_timestamp.mag /= <<0, 0, 0, 1>>

Exists(i) == store[call.addresses[i]] /= None
Foreign(i) == Exists(i) /\ Stored(call.addresses[i]).owner /= PROGRAM_ID
WrongTag(i) == Exists(i) /\ ~HasTag(Stored(call.addresses[i]).data)
Truncated(i) ==
    Exists(i) /\ ~Foreign(i) /\ ~WrongTag(i) /\ Len(Stored(call.addresses[i]).data) < 90
FirstBad ==
    CHOOSE f \in 1..Len(call.addresses) :
        /\ Foreign(f) \/ WrongTag(f)
        /\ \A j \in 1..(f - 1) : ~(Foreign(j) \/ WrongTag(j))

(* C10: fetch_multiple takes the entries in request order and fails as a whole
   at the first account that exists and is owned by another program or has a
   wrong tag: no list is returned, no later entry is decoded, and an entry
   with both a foreign owner and a wrong tag fails with the ownership error
   without being decoded. *)
C10_BatchAbortsAtFirstBad ==
    (call.op = "fetch_multiple"
       /\ \E i \in 1..Len(call.addresses) : Foreign(i) \/ WrongTag(i)) =>
      /\ outcome.kind = "error"
      /\ \A k \in 1..Len(trace) :
            /\ trace[k].at <= FirstBad
            /\ Foreign(FirstBad) => trace[k].at < FirstBad
      /\ \A k, m \in 1..Len(trace) : k < m => trace[k].at <= trace[m].at
      /\ (\A j \in 1..(FirstBad - 1) : ~Truncated(j)) =>
            /\ outcome = Err(IF Foreign(FirstBad) THEN OwnershipMismatch
                             ELSE InvalidDiscriminator)
            /\ {trace[k].at : k \in 1..Len(trace)} =
                 {j \in 1..(FirstBad - 1) : Exists(j)}
                   \cup (IF Foreign(FirstBad) THEN {} ELSE {FirstBad})

C10_Witness ==
    /\ call.op = "fetch_multiple"
    /\ call.addresses = <<"a1", "a2", "a3">>
    /\ store["a1"] = RpcInfo(PROGRAM_ID, Blob(1, 6, 90))
    /\ store["a2"] = RpcInfo(ForeignKey, Blob(3, 2, 90))
    /\ store["a3"] = RpcInfo(PROGRAM_ID, Blob(1, 4, 96))
    /\ outcome = Err(OwnershipMismatch)
    /\ {trace[k].at : k \in 1..Len(trace)} = {1}

====
